---- MODULE Spec2Model ----
(***************************************************************************)
(* Model of the Premier League infringing-IP detector:                     *)
(*   - construct_output_df (attribution of traffic above the noise         *)
(*     baseline), dags/scripts/pl_uk_ip_piracy_report_traffic;             *)
(*   - model_one (candidate detection), dags/scripts/                      *)
(*     pl_uk_ip_piracy_report_detection;                                   *)
(*   - main (the per-match loop over candidate artifacts).                 *)
(*                                                                         *)
(* Numbers.  The code computes in floating point; the model computes in    *)
(* exact arithmetic.  A quantity that the code divides is a rational       *)
(* <<numerator, denominator>> with a positive denominator.  Times of the   *)
(* attribution stage are minutes (multiples of 5).                         *)
(***************************************************************************)
EXTENDS Integers, Sequences, FiniteSets, Bags, TLC

VARIABLES
    \* ---- construct_output_df ----
    ko_timestamp,          \* kick-off, minutes
    season, gw,            \* season and game week of the kick-off
    input_ip_traffic_df,   \* sequence of input rows
    noise_df,              \* ip -> noise_gigabits, for the ips of the noise window
    output_ip_traffic_df,  \* set of output rows
    attr_pc,               \* "input" | "done"
    \* ---- model_one ----
    ip_traffic,            \* ip -> bucket of the day -> gbps of the rows of that key
    pl_fixtures,           \* sequence of fixture rows [date, ko_time]
    match_date,            \* 'YYYY-MM-DD', a sequence of characters
    pl_games,              \* date string -> distinct ko_time strings
    ips_normalized,        \* ip -> sequence of <<n, d>>, one per pivot row
    ips_d,                 \* ip -> sequence of <<n, d>> or <<>> (NaN)
    match_times_idx,       \* s_idx, e_idx of every game, as <<n, d>>
    count,                 \* position in match_times_idx
    scanned,               \* the integer slice bounds of every game so far
    pirate_lists,          \* the ip_pirate_list of every game so far
    csv_files,             \* blob_name -> ip list written
    blob_list,
    det_pc,                \* "idle" | "start" | "loop" | "returned" | "raised"
    det_error,
    argsort_ties,          \* the order in which this build's sort leaves
                           \* endpoints of equal count
    first_run,             \* what the first run of model_one produced,
                           \* <<>> during the first run
    \* ---- main ----
    file_name_w_ko_list,   \* sequence of [file_name, ko_timestamp]
    src_listing,           \* file name -> number of blobs of that base name listed
                           \* in the source location
    other_blobs,           \* whether the source location lists other blobs
    dst_listing,           \* file names present in the processed location
    same_bucket,           \* config: src_bucket == dst_bucket
    delete_query_file,     \* whether the delete_rows_by_ko_query file exists
    table,                 \* the rows of match_ip_traffic_table, a bag
    table_exists,
    main_pc,               \* the call main is at, or "idle" | "done" | "raised"
    file_idx,              \* position of the loop in file_name_w_ko_list
    blob_to_process,       \* len(blob_to_process) of get_ips, -1 before it
    query_list,            \* len(query_list) of get_season_and_gw, -1 before it
    raised_at,             \* the call that raised
    tries,                 \* retries of the task made so far
    at_match_start         \* table, src_listing, dst_listing when the match began

attr_vars == <<ko_timestamp, season, gw, input_ip_traffic_df, noise_df,
               output_ip_traffic_df, attr_pc>>

det_vars == <<ip_traffic, pl_fixtures, match_date, pl_games, ips_normalized,
              ips_d, match_times_idx, count, scanned, pirate_lists, csv_files,
              blob_list, det_pc, det_error,
             argsort_ties, first_run>>

main_vars == <<file_name_w_ko_list, src_listing, other_blobs, dst_listing,
               same_bucket, delete_query_file, table, table_exists, main_pc,
               file_idx, blob_to_process, query_list, raised_at, tries,
               at_match_start>>

vars == <<attr_vars, det_vars, main_vars>>

NULL == "NULL"

(***************************************************************************)
(* Exact arithmetic                                                        *)
(***************************************************************************)
Rat(n) == <<n, 1>>
RSub(a, b) == <<a[1] * b[2] - b[1] * a[2], a[2] * b[2]>>
RDiv(a, k) == <<a[1], a[2] * k>>
REq(a, b) == a[1] * b[2] = b[1] * a[2]
RLe(a, b) == a[1] * b[2] <= b[1] * a[2]
RMax(a, b) == IF RLe(a, b) THEN b ELSE a

RECURSIVE SumSeq(_)
SumSeq(s) == IF s = <<>> THEN 0 ELSE Head(s) + SumSeq(Tail(s))

\* The rows of sequence s that satisfy Keep, in order.
SelectRows(s, Keep(_)) == SelectSeq(s, Keep)

Column(s, f) == [i \in 1..Len(s) |-> s[i][f]]

SeqRange(s) == {s[i] : i \in 1..Len(s)}

(***************************************************************************)
(* construct_output_df                                                     *)
(***************************************************************************)
MinutesNoiseStart == 90
MinutesNoiseEnd == 30
MinutesMatchEnd == 110
NoiseIntervals == 12
SecondsPerInterval == 300

\* groupby(['ip', 'timestamp']).sum(): one row per (ip, timestamp) of the
\* input, its gigabits the sum over the input rows of that key.
CleanIpTrafficDf_first(df) ==
    { [ip |-> k[1], timestamp |-> k[2],
       gigabits |-> Head(Column(SelectRows(df,
                        LAMBDA r : r.ip = k[1] /\ r.timestamp = k[2]), "gigabits"))]
      : k \in {<<r.ip, r.timestamp>> : r \in SeqRange(df)} }

CleanIpTrafficDf(df) ==
    { [ip |-> k[1], timestamp |-> k[2],
       gigabits |-> SumSeq(Column(SelectRows(df,
                        LAMBDA r : r.ip = k[1] /\ r.timestamp = k[2]), "gigabits"))]
      : k \in {<<r.ip, r.timestamp>> : r \in SeqRange(df)} }

SumSet(S) ==
    LET RECURSIVE Go(_)
        Go(T) == IF T = {} THEN 0
                 ELSE LET x == CHOOSE y \in T : TRUE
                      IN x.gigabits + Go(T \ {x})
    IN Go(S)

InNoiseWindow(ts, ko) ==
    /\ ts >= ko - MinutesNoiseStart
    /\ ts < ko - MinutesNoiseEnd

InMatchWindow(ts, ko) ==
    /\ ts >= ko
    /\ ts < ko + MinutesMatchEnd

\* noise_df: for every ip with a row in the noise window, the sum of its
\* gigabits there divided by 12.
NoiseAgg_mean(rows) == <<SumSet(rows), Cardinality(rows)>>

NoiseAgg(rows) == <<SumSet(rows), NoiseIntervals>>

NoiseDf(clean, ko) ==
    LET win == {r \in clean : InNoiseWindow(r.timestamp, ko)}
    IN [i \in {r.ip : r \in win} |-> NoiseAgg({r \in win : r.ip = i})]

\* merge(noise_df, how='left', on='ip').fillna({'noise_gigabits': 0})
NoiseOf(noise, i) == IF i \in DOMAIN noise THEN noise[i] ELSE Rat(0)

\* (gigabits - noise_gigabits).clip(lower = 0)
PiracyGigabits_noclip(gigabits, noise_gigabits) ==
    RSub(Rat(gigabits), noise_gigabits)

PiracyGigabits(gigabits, noise_gigabits) ==
    RMax(RSub(Rat(gigabits), noise_gigabits), Rat(0))

Gbps(x) == RDiv(x, SecondsPerInterval)

ProcessedIpTrafficDf(clean, noise, ko) ==
    { [ip |-> r.ip, timestamp |-> r.timestamp, gigabits |-> r.gigabits,
       noise_gigabits |-> NoiseOf(noise, r.ip),
       piracy_gigabits |-> PiracyGigabits(r.gigabits, NoiseOf(noise, r.ip)),
       gbps |-> Gbps(Rat(r.gigabits)),
       piracy_gbps |-> Gbps(PiracyGigabits(r.gigabits, NoiseOf(noise, r.ip)))]
      : r \in {c \in clean : InMatchWindow(c.timestamp, ko)} }

\* sort_values('asn', na_position='first').drop_duplicates(subset=['ip'],
\* keep='last'): the row kept for an ip is the last one in the sorted order.
\* The sort is pandas' default quicksort, which does not fix the order of
\* rows with equal asn; rows without asn come first.  So the kept row is a
\* row of the greatest asn of that ip, or, when none of its rows has an asn,
\* any of its rows can be the last one.
\* asn is <<>> when missing, <<n>> otherwise.
AsnKey_nalast(r) == IF r.asn = <<>> THEN 2147483647 ELSE r.asn[1]

AsnKey(r) == IF r.asn = <<>> THEN -1 ELSE r.asn[1]

LastCandidates(df, i) ==
    LET mine == {r \in SeqRange(df) : r.ip = i}
    IN {r \in mine : \A q \in mine : AsnKey(q) <= AsnKey(r)}

BaseDfChoices(df) ==
    LET ips == {r.ip : r \in SeqRange(df)}
        Meta(r) == [asn |-> r.asn, as_name |-> r.as_name, analyse |-> r.analyse,
                    vpn |-> r.vpn, vpn_name |-> r.vpn_name]
    IN {b \in [ips -> {Meta(r) : r \in SeqRange(df)}] :
          \A i \in ips : b[i] \in {Meta(r) : r \in LastCandidates(df, i)}}

\* base_df.merge(processed_ip_traffic_df[...], on='ip')
OutputDf(base, processed_df, ko, ssn, gameweek) ==
    { [ip |-> p.ip, asn |-> base[p.ip].asn, as_name |-> base[p.ip].as_name,
       analyse |-> base[p.ip].analyse, vpn |-> base[p.ip].vpn,
       vpn_name |-> base[p.ip].vpn_name,
       season |-> ssn, game_week |-> gameweek, ko_timestamp |-> ko,
       timestamp |-> p.timestamp, gigabits |-> p.gigabits,
       piracy_gigabits |-> p.piracy_gigabits, gbps |-> p.gbps,
       piracy_gbps |-> p.piracy_gbps]
      : p \in {q \in processed_df : q.ip \in DOMAIN base} }

(***************************************************************************)
(* Inputs of the attribution stage                                         *)
(***************************************************************************)
MaxRows == 4

KickOffs == {900, 1230}

\* Input rows, as offsets in minutes from the kick-off.
RowPool == <<
    [off |-> -95, ip |-> "A", gigabits |-> 48, asn |-> <<64512>>, as_name |-> "AS-A"],
    [off |-> -90, ip |-> "A", gigabits |-> 10, asn |-> <<64512>>, as_name |-> "AS-A"],
    [off |-> -60, ip |-> "A", gigabits |-> 0,  asn |-> <<64512>>, as_name |-> "AS-A"],
    [off |-> -35, ip |-> "A", gigabits |-> 14, asn |-> <<>>,   as_name |-> NULL],
    [off |-> -30, ip |-> "A", gigabits |-> 36, asn |-> <<64512>>, as_name |-> "AS-A"],
    [off |-> 0,   ip |-> "A", gigabits |-> 5,  asn |-> <<64512>>, as_name |-> "AS-A"],
    [off |-> 0,   ip |-> "A", gigabits |-> 2,  asn |-> <<>>,   as_name |-> NULL],
    [off |-> 105, ip |-> "A", gigabits |-> 1,  asn |-> <<64512>>, as_name |-> "AS-A"],
    [off |-> 110, ip |-> "A", gigabits |-> 9,  asn |-> <<64512>>, as_name |-> "AS-A"],
    [off |-> 0,   ip |-> "B", gigabits |-> 5,  asn |-> <<64513>>, as_name |-> "AS-B"],
    [off |-> -5,  ip |-> "B", gigabits |-> 7,  asn |-> <<>>,   as_name |-> NULL] >>

InputRow(p, ko) ==
    [timestamp |-> ko + p.off, ip |-> p.ip, gigabits |-> p.gigabits,
     asn |-> p.asn, as_name |-> p.as_name, analyse |-> (p.asn # <<>>),
     vpn |-> FALSE, vpn_name |-> NULL]

RECURSIVE PickRows(_, _, _)
PickRows(S, n, ko) ==
    IF n > Len(RowPool) THEN <<>>
    ELSE IF n \in S THEN <<InputRow(RowPool[n], ko)>> \o PickRows(S, n + 1, ko)
    ELSE PickRows(S, n + 1, ko)

\* The tables of at most MaxRows rows of the pool, in the pool's order.
InputDfs(ko) ==
    {PickRows(S, 1, ko) :
        S \in {T \in SUBSET (1..Len(RowPool)) : Cardinality(T) <= MaxRows}}

AttrStart ==
    /\ ko_timestamp \in KickOffs
    /\ season = "2020/21"
    /\ gw = 31
    /\ input_ip_traffic_df \in InputDfs(ko_timestamp)
    /\ noise_df = <<>>
    /\ output_ip_traffic_df = {}
    /\ attr_pc = "input"

ConstructOutputDf ==
    /\ attr_pc = "input"
    /\ LET clean == CleanIpTrafficDf(input_ip_traffic_df)
           noise == NoiseDf(clean, ko_timestamp)
           processed_df == ProcessedIpTrafficDf(clean, noise, ko_timestamp)
       IN /\ noise_df' = noise
          /\ \E base \in BaseDfChoices(input_ip_traffic_df) :
                output_ip_traffic_df' =
                    OutputDf(base, processed_df, ko_timestamp, season, gw)
    /\ attr_pc' = "done"
    /\ main_pc' = IF main_pc = "construct_output_df"
                  THEN "bq_delete_existing_rows" ELSE main_pc
    /\ UNCHANGED <<ko_timestamp, season, gw, input_ip_traffic_df>>
    /\ UNCHANGED det_vars
    /\ UNCHANGED <<file_name_w_ko_list, src_listing, other_blobs, dst_listing,
                   same_bucket, delete_query_file, table, table_exists,
                   file_idx, blob_to_process, query_list, raised_at, tries,
                   at_match_start>>

(***************************************************************************)
(* model_one                                                               *)
(*                                                                         *)
(* Strings are sequences of one-character strings.  gbps values are in     *)
(* hundredths.  A cell of a table is <<>> (NaN) or a rational <<n, d>>.    *)
(***************************************************************************)
NaN == <<>>

Max2(a, b) == IF a >= b THEN a ELSE b
Min2(a, b) == IF a <= b THEN a ELSE b

DigitChars == <<"0", "1", "2", "3", "4", "5", "6", "7", "8", "9">>

\* str(n) zero-padded to two digits, as strftime does.
Digits2(n) == <<DigitChars[((n \div 10) % 10) + 1], DigitChars[(n % 10) + 1]>>
Digits4(n) == Digits2(n \div 100) \o Digits2(n % 100)

\* str(match_date.date()): 'YYYY-MM-DD'
StrDate(d) == Digits4(d.year) \o <<"-">> \o Digits2(d.month) \o <<"-">> \o Digits2(d.day)

\* int(s) of a string of digits
DigitValue(c) == CHOOSE v \in 0..9 : DigitChars[v + 1] = c

RECURSIVE IntOf(_)
IntOf(s) == IF s = <<>> THEN 0
            ELSE 10 * IntOf(SubSeq(s, 1, Len(s) - 1)) + DigitValue(s[Len(s)])

\* s[a:b] of a string, a and b within 0..len
PySlice(s, a, b) == SubSeq(s, a + 1, Min2(b, Len(s)))

\* s.replace(c, '')
StrRemove(s, c) == SelectSeq(s, LAMBDA x : x # c)

\* list(series.unique()): the distinct values in order of first appearance
Unique_all(s) == s

RECURSIVE Unique(_)
Unique(s) ==
    IF s = <<>> THEN <<>>
    ELSE LET init == Unique(SubSeq(s, 1, Len(s) - 1))
         IN IF s[Len(s)] \in SeqRange(init) THEN init ELSE Append(init, s[Len(s)])

\* pl_games: for every date of the fixtures, its distinct kick-off times.
PlGames(fixtures) ==
    [md \in {StrDate(fixtures[i].date) : i \in 1..Len(fixtures)} |->
        Unique(Column(SelectSeq(fixtures, LAMBDA r : StrDate(r.date) = md),
                      "ko_time"))]

BucketsPerDay == 24 * 12
Buckets == 0..(BucketsPerDay - 1)

\* The members of S within lo..hi, in increasing order.
RECURSIVE SortedRange(_, _, _)
SortedRange(S, lo, hi) ==
    IF lo > hi THEN <<>>
    ELSE IF lo = hi THEN (IF lo \in S THEN <<lo>> ELSE <<>>)
    ELSE SortedRange(S, lo, (lo + hi) \div 2)
            \o SortedRange(S, ((lo + hi) \div 2) + 1, hi)

\* The index of the pivot: the bf_time values of the rows, sorted.
PivotIndex(traffic) ==
    SortedRange({t \in Buckets : \E i \in DOMAIN traffic : traffic[i][t] # <<>>},
                0, BucketsPerDay - 1)

\* pd.pivot_table(values='gbps', index=['bf_time'], columns=['ip'],
\* aggfunc=np.sum): per ip a column over the index, NaN where ip has no row.
PivotTable(traffic) ==
    LET idx == PivotIndex(traffic)
    IN [i \in {j \in DOMAIN traffic : \E t \in Buckets : traffic[j][t] # <<>>} |->
          [k \in 1..Len(idx) |->
              IF traffic[i][idx[k]] = <<>> THEN NaN
              ELSE <<SumSeq(traffic[i][idx[k]]), 1>>]]

\* column.max() and column.min(), NaN skipped; the column has a value.
ColMax(col) ==
    LET vals == {col[k][1] : k \in {j \in 1..Len(col) : col[j] # NaN}}
    IN CHOOSE m \in vals : \A v \in vals : v <= m

ColMin(col) ==
    LET vals == {col[k][1] : k \in {j \in 1..Len(col) : col[j] # NaN}}
    IN CHOOSE m \in vals : \A v \in vals : m <= v

\* ip_pivot.max() > 0.02
IsTopTalker_ge(col) == ColMax(col) >= 2

IsTopTalker(col) == ColMax(col) > 2

TopTalkers(pivot) == {i \in DOMAIN pivot : IsTopTalker(pivot[i])}

\* fillna(0)
FillNa(col) == [k \in 1..Len(col) |-> IF col[k] = NaN THEN <<0, 1>> ELSE col[k]]

\* preprocessing.minmax_scale: (x - min) / (max - min) per column; a column
\* of zero range is scaled by 1 (sklearn's _handle_zeros_in_scale).
DataRange(col) ==
    IF ColMax(col) = ColMin(col) THEN 1 ELSE ColMax(col) - ColMin(col)

MinMaxScale(col) ==
    LET mn == ColMin(col)
        rg == DataRange(col)
    IN [k \in 1..Len(col) |-> <<col[k][1] - mn, rg>>]

\* rolling(window=8).mean(): the mean of the 8 rows ending at k, NaN before
\* the 8th row.  The cells of a column share their denominator.
RollingMean8(col) ==
    [k \in 1..Len(col) |->
        IF k < 8 THEN NaN
        ELSE <<col[k][1] + col[k-1][1] + col[k-2][1] + col[k-3][1]
               + col[k-4][1] + col[k-5][1] + col[k-6][1] + col[k-7][1],
               8 * col[k][2]>>]

\* shift(periods=-4): row k takes the value of row k + 4
ShiftBack4_3(col) ==
    [k \in 1..Len(col) |-> IF k + 3 > Len(col) THEN NaN ELSE col[k + 3]]

ShiftBack4(col) ==
    [k \in 1..Len(col) |-> IF k + 4 > Len(col) THEN NaN ELSE col[k + 4]]

\* diff(periods=4): row k minus row k - 4, NaN when either is missing
Diff4_zero(col) ==
    [k \in 1..Len(col) |->
        IF k - 4 < 1 THEN NaN
        ELSE IF col[k] = NaN /\ col[k - 4] = NaN THEN NaN
        ELSE IF col[k - 4] = NaN THEN col[k]
        ELSE IF col[k] = NaN THEN <<0 - col[k - 4][1], col[k - 4][2]>>
        ELSE <<col[k][1] - col[k - 4][1], col[k][2]>>]

Diff4(col) ==
    [k \in 1..Len(col) |->
        IF k - 4 < 1 THEN NaN
        ELSE IF col[k] = NaN \/ col[k - 4] = NaN THEN NaN
        ELSE <<col[k][1] - col[k - 4][1], col[k][2]>>]

\* s_idx, e_idx of a kick-off time 'HH:MM...': true division by 5
SIdx(ko) == <<5 * (12 * IntOf(PySlice(ko, 0, 2))) + IntOf(PySlice(ko, 3, 5)) - 5 * 6, 5>>
EIdx_22(ko) == <<5 * (12 * IntOf(PySlice(ko, 0, 2))) + IntOf(PySlice(ko, 3, 5)) + 5 * 22, 5>>

EIdx(ko) == <<5 * (12 * IntOf(PySlice(ko, 0, 2))) + IntOf(PySlice(ko, 3, 5)) + 5 * 21, 5>>

RECURSIVE MatchTimesIdx(_)
MatchTimesIdx(games) ==
    IF games = <<>> THEN <<>>
    ELSE MatchTimesIdx(SubSeq(games, 1, Len(games) - 1))
            \o <<SIdx(games[Len(games)]), EIdx(games[Len(games)])>>

\* int(x): truncation toward zero
PyInt(x) == IF x[1] >= 0 THEN x[1] \div x[2] ELSE -((-x[1]) \div x[2])

\* The rows (1-based) of df[a:b] on n rows, a slice by position.
PyBound(a, n) == IF a < 0 THEN Max2(a + n, 0) ELSE Min2(a, n)
SliceRows(a, b, n) == (PyBound(a, n) + 1)..PyBound(b, n)

\* (ips_d[a:b] > .1).sum(): per ip, the rows of the slice above 0.1
Exceeds(cell) == cell # NaN /\ 10 * cell[1] > cell[2]

ExceedCounts(d, a, b) ==
    [i \in DOMAIN d |->
        Cardinality({k \in SliceRows(a, b, Len(d[i])) : Exceeds(d[i][k])})]

\* ip_pirate_list[ip_pirate_list > 10]
IsCandidate_ge(n) == n >= 10

IsCandidate(n) == n > 10

\* sort_values(ascending=False): the default quicksort fixes no order among
\* equal counts, so every descending arrangement is a possible result.
SortedDescending(counts) ==
    LET keep == {i \in DOMAIN counts : IsCandidate(counts[i])}
        n == Cardinality(keep)
    IN {o \in [1..n -> keep] :
          /\ \A a, b \in 1..n : a # b => o[a] # o[b]
          /\ \A a, b \in 1..n : a < b => counts[o[a]] >= counts[o[b]]}

\* The sort is a deterministic procedure: what it does with equal counts is
\* not fixed by its contract but is the same every time in one build.
\* ties is the order in which the build leaves endpoints of equal count.
PosIn(seq, x) == CHOOSE k \in 1..Len(seq) : seq[k] = x

SortValues_any(counts, ties) == SortedDescending(counts)

SortValues(counts, ties) ==
    {o \in SortedDescending(counts) :
        \A a, b \in DOMAIN o :
            (a < b /\ counts[o[a]] = counts[o[b]])
                => PosIn(ties, o[a]) < PosIn(ties, o[b])}

\* 'ips_' + match_date.replace('-','') + "_" + str(ko).replace(':','')[0:4]
\* + "_UTC.csv"
BlobName(md, ko) ==
    <<"i", "p", "s", "_">> \o StrRemove(md, "-") \o <<"_">>
        \o PySlice(StrRemove(ko, ":"), 0, 4)
        \o <<"_", "U", "T", "C", ".", "c", "s", "v">>

(***************************************************************************)
(* Inputs of model_one                                                     *)
(***************************************************************************)
MaxFixtures == 2
IPs == {1, 2}

D1 == [year |-> 2021, month |-> 4, day |-> 12]
D2 == [year |-> 2021, month |-> 4, day |-> 13]

T1500 == <<"1", "5", ":", "0", "0", ":", "0", "0">>
T2030 == <<"2", "0", ":", "3", "0", ":", "0", "0">>
T1232 == <<"1", "2", ":", "3", "2", ":", "0", "0">>

FixturePool ==
    {[date |-> D1, ko_time |-> T1500], [date |-> D1, ko_time |-> T2030],
     [date |-> D1, ko_time |-> T1232], [date |-> D2, ko_time |-> T1500]}

FixtureTables ==
    UNION {[1..n -> FixturePool] : n \in 1..MaxFixtures}

\* Traffic of one ip over the day.
Clamp(x, lo, hi) == Max2(lo, Min2(x, hi))

\* a rise from 0 to 0.20 gbps over 20 buckets starting at bucket p, with a
\* row for every bucket and two rows for bucket p + 10
Ramp(p) ==
    [t \in Buckets |->
        IF t = p + 10 THEN <<4, 6>> ELSE <<Clamp(t - p, 0, 20)>>]

\* 0.05 gbps in every bucket
Flat == [t \in Buckets |-> <<5>>]

\* one row of 0.02 gbps
Low == [t \in Buckets |-> IF t = 100 THEN <<2>> ELSE <<>>]

\* col with no row for bucket t
Without(col, t) == [col EXCEPT ![t] = <<>>]

\* col with no row after bucket t: the traffic of a day that is not over
Until(col, t) == [u \in Buckets |-> IF u > t THEN <<>> ELSE col[u]]

Table(a, b) == (1 :> a) @@ (2 :> b)

\* With kick-off 15:00 the window holds 15 exceeding buckets of Ramp(184),
\* 11 of Ramp(188), 10 of Ramp(189) and 3 of Ramp(196).
TrafficTables ==
    {Table(Low, Low), Table(Low, Flat), Table(Flat, Ramp(184)),
     Table(Ramp(184), Low), Table(Ramp(189), Ramp(184)),
     Table(Ramp(196), Ramp(184)), Table(Ramp(184), Ramp(188)),
     Table(Ramp(188), Ramp(184)), Table(Ramp(188), Ramp(188)),
     Table(Ramp(184), Ramp(184)),
     Table(Without(Ramp(184), 50), Without(Flat, 50)),
     Table(Until(Ramp(160), 180), Until(Flat, 180))}

\* The orders a sort can leave the endpoints of equal count in.
TieOrders == {<<1, 2>>, <<2, 1>>}

DetIdle ==
    /\ ip_traffic = <<>>
    /\ pl_fixtures = <<>>
    /\ match_date = <<>>
    /\ pl_games = <<>>
    /\ ips_normalized = <<>>
    /\ ips_d = <<>>
    /\ match_times_idx = <<>>
    /\ count = 0
    /\ scanned = <<>>
    /\ pirate_lists = <<>>
    /\ csv_files = <<>>
    /\ blob_list = <<>>
    /\ det_pc = "idle"
    /\ det_error = "none"
    /\ argsort_ties = <<>>
    /\ first_run = <<>>

DetStart ==
    /\ ip_traffic \in TrafficTables
    /\ pl_fixtures \in FixtureTables
    /\ match_date = StrDate(D1)
    /\ pl_games = <<>>
    /\ ips_normalized = <<>>
    /\ ips_d = <<>>
    /\ match_times_idx = <<>>
    /\ count = 0
    /\ scanned = <<>>
    /\ pirate_lists = <<>>
    /\ csv_files = <<>>
    /\ blob_list = <<>>
    /\ det_pc = "start"
    /\ det_error = "none"
    /\ argsort_ties \in TieOrders
    /\ first_run = <<>>

AttrIdle ==
    /\ ko_timestamp = 0
    /\ season = "none"
    /\ gw = 0
    /\ input_ip_traffic_df = <<>>
    /\ noise_df = <<>>
    /\ output_ip_traffic_df = {}
    /\ attr_pc = "idle"

MainIdle ==
    /\ file_name_w_ko_list = <<>>
    /\ src_listing = <<>>
    /\ other_blobs = FALSE
    /\ dst_listing = {}
    /\ same_bucket = TRUE
    /\ delete_query_file = TRUE
    /\ table = EmptyBag
    /\ table_exists = FALSE
    /\ main_pc = "idle"
    /\ file_idx = 0
    /\ blob_to_process = -1
    /\ query_list = -1
    /\ raised_at = "none"
    /\ tries = 0
    /\ at_match_start = <<>>

\* Lines 67-98: the games of every date, the normalised, smoothed and
\* differenced traffic, the window bounds of the games of match_date.
\* minmax_scale raises ValueError on a table without columns, and
\* pl_games[match_date] raises KeyError when the date has no fixture.
ModelOnePrepare ==
    /\ det_pc = "start"
    /\ LET games == PlGames(pl_fixtures)
           pivot == PivotTable(ip_traffic)
           top == TopTalkers(pivot)
           normalized == [i \in top |-> MinMaxScale(FillNa(pivot[i]))]
           d == [i \in top |-> Diff4(ShiftBack4(RollingMean8(normalized[i])))]
       IN /\ pl_games' = games
          /\ IF top = {}
             THEN /\ det_pc' = "raised"
                  /\ det_error' = "ValueError"
                  /\ UNCHANGED <<ips_normalized, ips_d, match_times_idx>>
             ELSE /\ ips_normalized' = normalized
                  /\ ips_d' = d
                  /\ IF match_date \in DOMAIN games
                     THEN /\ match_times_idx' = MatchTimesIdx(games[match_date])
                          /\ det_pc' = "loop"
                          /\ det_error' = "none"
                     ELSE /\ match_times_idx' = <<>>
                          /\ det_pc' = "raised"
                          /\ det_error' = "KeyError"
    /\ UNCHANGED <<ip_traffic, pl_fixtures, match_date, count, scanned,
                   pirate_lists, csv_files, blob_list, argsort_ties,
                   first_run>>
    /\ UNCHANGED attr_vars
    /\ UNCHANGED main_vars

\* Lines 103-115: one pass of the loop over the games of match_date.
ModelOneGame ==
    /\ det_pc = "loop"
    /\ Len(blob_list) < Len(pl_games[match_date])
    /\ LET a == PyInt(match_times_idx[count + 1])
           b == PyInt(match_times_idx[count + 2])
           counts == ExceedCounts(ips_d, a, b)
           blob_name == BlobName(match_date,
                                 pl_games[match_date][Len(blob_list) + 1])
       IN /\ scanned' = Append(scanned, <<a, b>>)
          /\ \E ip_pirate_list \in SortValues(counts, argsort_ties) :
                /\ pirate_lists' = Append(pirate_lists, ip_pirate_list)
                /\ csv_files' = (blob_name :> ip_pirate_list) @@ csv_files
          /\ blob_list' = Append(blob_list, blob_name)
    /\ count' = count + 2
    /\ UNCHANGED <<ip_traffic, pl_fixtures, match_date, pl_games,
                   ips_normalized, ips_d, match_times_idx, det_pc, det_error,
                   argsort_ties, first_run>>
    /\ UNCHANGED attr_vars
    /\ UNCHANGED main_vars

\* Line 117: return blob_list
ModelOneReturn ==
    /\ det_pc = "loop"
    /\ Len(blob_list) = Len(pl_games[match_date])
    /\ det_pc' = "returned"
    /\ UNCHANGED <<ip_traffic, pl_fixtures, match_date, pl_games,
                   ips_normalized, ips_d, match_times_idx, count, scanned,
                   pirate_lists, csv_files, blob_list, det_error,
                   argsort_ties, first_run>>
    /\ UNCHANGED attr_vars
    /\ UNCHANGED main_vars

DetInit == DetStart /\ AttrIdle /\ MainIdle

DetNext == ModelOnePrepare \/ ModelOneGame \/ ModelOneReturn

SpecDetect == DetInit /\ [][DetNext]_vars

\* model_one run again on the same traffic, fixtures and match date.
RerunTables ==
    {Table(Low, Flat), Table(Ramp(188), Ramp(184)),
     Table(Ramp(188), Ramp(188)), Table(Ramp(184), Ramp(184))}

ModelOneRerun ==
    /\ det_pc \in {"returned", "raised"}
    /\ first_run = <<>>
    /\ first_run' = [pirate_lists |-> pirate_lists, blob_list |-> blob_list,
                     csv_files |-> csv_files, det_error |-> det_error]
    /\ det_pc' = "start"
    /\ det_error' = "none"
    /\ pl_games' = <<>>
    /\ ips_normalized' = <<>>
    /\ ips_d' = <<>>
    /\ match_times_idx' = <<>>
    /\ count' = 0
    /\ scanned' = <<>>
    /\ pirate_lists' = <<>>
    /\ blob_list' = <<>>
    /\ UNCHANGED <<ip_traffic, pl_fixtures, match_date, csv_files,
                   argsort_ties>>
    /\ UNCHANGED attr_vars
    /\ UNCHANGED main_vars

RerunInit == DetInit /\ ip_traffic \in RerunTables

RerunNext == DetNext \/ ModelOneRerun

SpecRerun == RerunInit /\ [][RerunNext]_vars


(***************************************************************************)
(* main: the loop over the candidate artifacts                             *)
(***************************************************************************)
Retries == 1

F1500 == [file_name |-> BlobName(StrDate(D1), T1500), ko_timestamp |-> 900]
F2030 == [file_name |-> BlobName(StrDate(D1), T2030), ko_timestamp |-> 1230]

FileNames == {F1500.file_name, F2030.file_name}

\* The traffic the detected-ips query can return for a kick-off.
MainDfs(ko) == {PickRows({2, 6}, 1, ko), PickRows({6, 7, 10}, 1, ko)}

MainStart ==
    /\ file_name_w_ko_list \in {<<F1500>>, <<F1500, F2030>>}
    /\ src_listing \in [FileNames -> 0..2]
    /\ other_blobs \in BOOLEAN
    /\ dst_listing = {}
    /\ same_bucket \in BOOLEAN
    /\ delete_query_file \in BOOLEAN
    /\ table = EmptyBag
    /\ table_exists \in BOOLEAN
    /\ main_pc = "get_ips"
    /\ file_idx = 1
    /\ blob_to_process = -1
    /\ query_list = -1
    /\ raised_at = "none"
    /\ tries = 0
    /\ at_match_start = [table |-> EmptyBag, src_listing |-> src_listing,
                         dst_listing |-> {}]
    /\ ko_timestamp = 900
    /\ season = "none"
    /\ gw = 0
    /\ input_ip_traffic_df = <<>>
    /\ noise_df = <<>>
    /\ output_ip_traffic_df = {}
    /\ attr_pc = "idle"

input_file_name == file_name_w_ko_list[file_idx].file_name

\* An exception leaves main.
Raise(where) ==
    /\ main_pc' = "raised"
    /\ raised_at' = where

\* get_ips: list the source location, keep the blobs whose base name is
\* input_file_name, raise unless there is exactly one.
NothingListed ==
    /\ ~other_blobs
    /\ \A f \in DOMAIN src_listing : src_listing[f] = 0

\* if len(blob_to_process) == 0: raise ... elif len(blob_to_process) > 1:
\* raise ... else: the one blob is read.
OneMatchingFile(n) == ~(n = 0) /\ ~(n > 1)

MainGetIps ==
    /\ main_pc = "get_ips"
    /\ \/ /\ Raise("get_ips")                \* the listing or the download fails
          /\ UNCHANGED blob_to_process
       \/ /\ NothingListed
          /\ Raise("get_ips")
          /\ UNCHANGED blob_to_process
       \/ /\ ~NothingListed
          /\ blob_to_process' = src_listing[input_file_name]
          /\ IF OneMatchingFile(src_listing[input_file_name])
             THEN main_pc' = "get_ip_traffic" /\ UNCHANGED raised_at
             ELSE Raise("get_ips")
    /\ UNCHANGED <<file_name_w_ko_list, src_listing, other_blobs, dst_listing,
                   same_bucket, delete_query_file, table, table_exists,
                   file_idx, query_list, tries, at_match_start>>
    /\ UNCHANGED attr_vars
    /\ UNCHANGED det_vars

\* get_ip_traffic and check_ips_and_warn (which only warns)
MainGetIpTraffic ==
    /\ main_pc = "get_ip_traffic"
    /\ \/ /\ Raise("get_ip_traffic")
          /\ UNCHANGED input_ip_traffic_df
       \/ /\ input_ip_traffic_df' \in MainDfs(ko_timestamp)
          /\ main_pc' = "get_season_and_gw"
          /\ UNCHANGED raised_at
    /\ UNCHANGED <<ko_timestamp, season, gw, noise_df, output_ip_traffic_df,
                   attr_pc>>
    /\ UNCHANGED <<file_name_w_ko_list, src_listing, other_blobs, dst_listing,
                   same_bucket, delete_query_file, table, table_exists,
                   file_idx, blob_to_process, query_list, tries,
                   at_match_start>>
    /\ UNCHANGED det_vars

\* if len(query_list) == 0: raise ... elif len(query_list) > 1: raise ...
\* else: return query_list[0].
OneGameWeek_first(n) == ~(n = 0)

OneGameWeek(n) == ~(n = 0) /\ ~(n > 1)

\* get_season_and_gw: raise unless the query returns exactly one row.
MainGetSeasonAndGw ==
    /\ main_pc = "get_season_and_gw"
    /\ \/ /\ Raise("get_season_and_gw")       \* the query fails
          /\ UNCHANGED <<query_list, season, gw, attr_pc>>
       \/ \E n \in 0..2 :
             /\ query_list' = n
             /\ IF OneGameWeek(n)
                THEN /\ season' = "2020/21"
                     /\ gw' = 31
                     /\ attr_pc' = "input"
                     /\ main_pc' = "construct_output_df"
                     /\ UNCHANGED raised_at
                ELSE /\ Raise("get_season_and_gw")
                     /\ UNCHANGED <<season, gw, attr_pc>>
    /\ UNCHANGED <<ko_timestamp, input_ip_traffic_df, noise_df,
                   output_ip_traffic_df>>
    /\ UNCHANGED <<file_name_w_ko_list, src_listing, other_blobs, dst_listing,
                   same_bucket, delete_query_file, table, table_exists,
                   file_idx, blob_to_process, tries, at_match_start>>
    /\ UNCHANGED det_vars

\* The delete_rows_by_ko_query: the rows of the kick-off leave the table.
DeleteRowsByKo(t, ko) ==
    [r \in {x \in DOMAIN t : x.ko_timestamp # ko} |-> t[r]]

\* What bq_delete_existing_rows can raise: read_query raises
\* FileNotFoundError without the query file; the query raises NotFound
\* without the table and can fail otherwise ("BigQueryError").
PurgeErrors ==
    IF ~delete_query_file THEN {"FileNotFoundError"}
    ELSE IF ~table_exists THEN {"NotFound"}
    ELSE {"none", "BigQueryError"}

\* except FileNotFoundError as error: raise error / except: pass
Reraised_all(error) == error # "none"

Reraised(error) == error = "FileNotFoundError"

\* try: bq_delete_existing_rows(...) with the two except clauses.
MainDeleteExistingRows ==
    /\ main_pc = "bq_delete_existing_rows"
    /\ \E error \in PurgeErrors :
          IF Reraised(error)
          THEN /\ Raise("bq_delete_existing_rows")
               /\ UNCHANGED table
          ELSE /\ main_pc' = "bq_df_to_table"
               /\ UNCHANGED raised_at
               /\ table' = IF error = "none"
                           THEN DeleteRowsByKo(table, ko_timestamp)
                           ELSE table
    /\ UNCHANGED <<file_name_w_ko_list, src_listing, other_blobs, dst_listing,
                   same_bucket, delete_query_file, table_exists, file_idx,
                   blob_to_process, query_list, tries, at_match_start>>
    /\ UNCHANGED attr_vars
    /\ UNCHANGED det_vars

\* load_table_from_dataframe(dataframe, table_id), job.result(): the rows
\* of the dataframe are appended to the table.
LoadTableFromDataframe_none(t, dataframe) == t

LoadTableFromDataframe(t, dataframe) == t (+) SetToBag(dataframe)

\* bq_df_to_table: the load job appends the rows, creating the table.
MainDfToTable ==
    /\ main_pc = "bq_df_to_table"
    /\ \/ /\ Raise("bq_df_to_table")
          /\ UNCHANGED <<table, table_exists>>
       \/ /\ table' = LoadTableFromDataframe(table, output_ip_traffic_df)
          /\ table_exists' = TRUE
          /\ main_pc' = "cs_move_object"
          /\ UNCHANGED raised_at
    /\ UNCHANGED <<file_name_w_ko_list, src_listing, other_blobs, dst_listing,
                   same_bucket, delete_query_file, file_idx, blob_to_process,
                   query_list, tries, at_match_start>>
    /\ UNCHANGED attr_vars
    /\ UNCHANGED det_vars

\* The loop takes the next file, or main returns.
NextMatch(listing, done) ==
    IF file_idx < Len(file_name_w_ko_list)
    THEN /\ file_idx' = file_idx + 1
         /\ ko_timestamp' = file_name_w_ko_list[file_idx + 1].ko_timestamp
         /\ main_pc' = "get_ips"
         /\ blob_to_process' = -1
         /\ query_list' = -1
         /\ at_match_start' = [table |-> table, src_listing |-> listing,
                               dst_listing |-> done]
    ELSE /\ main_pc' = "done"
         /\ UNCHANGED <<file_idx, ko_timestamp, blob_to_process, query_list,
                        at_match_start>>

\* cs_move_object: a rename within one bucket; between buckets a copy
\* followed by a delete of the original.
MainMoveObject ==
    /\ main_pc = "cs_move_object"
    /\ \/ /\ Raise("cs_move_object")          \* nothing moved
          /\ UNCHANGED <<src_listing, dst_listing, file_idx, ko_timestamp,
                         blob_to_process, query_list, at_match_start>>
       \/ /\ ~same_bucket                     \* copied, blob.delete() fails
          /\ dst_listing' = dst_listing \cup {input_file_name}
          /\ Raise("cs_move_object")
          /\ UNCHANGED <<src_listing, file_idx, ko_timestamp, blob_to_process,
                         query_list, at_match_start>>
       \/ /\ dst_listing' = dst_listing \cup {input_file_name}
          /\ src_listing' = [src_listing EXCEPT ![input_file_name] = @ - 1]
          /\ NextMatch(src_listing', dst_listing')
          /\ UNCHANGED raised_at
    /\ UNCHANGED <<season, gw, input_ip_traffic_df, noise_df,
                   output_ip_traffic_df, attr_pc>>
    /\ UNCHANGED <<file_name_w_ko_list, other_blobs, same_bucket,
                   delete_query_file, table, table_exists, tries>>
    /\ UNCHANGED det_vars

\* The scheduler runs the failed task again ('retries': 1): main starts
\* over with the same file list.
MainRetry ==
    /\ main_pc = "raised"
    /\ tries < Retries
    /\ tries' = tries + 1
    /\ main_pc' = "get_ips"
    /\ file_idx' = 1
    /\ ko_timestamp' = file_name_w_ko_list[1].ko_timestamp
    /\ blob_to_process' = -1
    /\ query_list' = -1
    /\ raised_at' = "none"
    /\ at_match_start' = [table |-> table, src_listing |-> src_listing,
                          dst_listing |-> dst_listing]
    /\ UNCHANGED <<season, gw, input_ip_traffic_df, noise_df,
                   output_ip_traffic_df, attr_pc>>
    /\ UNCHANGED <<file_name_w_ko_list, src_listing, other_blobs, dst_listing,
                   same_bucket, delete_query_file, table, table_exists>>
    /\ UNCHANGED det_vars

Init == MainStart /\ DetIdle

Next ==
    \/ MainGetIps
    \/ MainGetIpTraffic
    \/ MainGetSeasonAndGw
    \/ ConstructOutputDf
    \/ MainDeleteExistingRows
    \/ MainDfToTable
    \/ MainMoveObject
    \/ MainRetry

Spec == Init /\ [][Next]_vars


AttrInit == AttrStart /\ DetIdle /\ MainIdle

AttrNext == ConstructOutputDf

SpecAttr == AttrInit /\ [][AttrNext]_vars

(***************************************************************************)
(* Claims about construct_output_df (specification SpecAttr)               *)
(***************************************************************************)
\* What the claims say, computed from the input rows directly.
SumWhere(df, Keep(_)) ==
    LET f[n \in 0..Len(df)] ==
            IF n = 0 THEN 0
            ELSE (IF Keep(df[n]) THEN df[n].gigabits ELSE 0) + f[n - 1]
    IN f[Len(df)]

ClaimGigabits(i, ts) ==
    SumWhere(input_ip_traffic_df,
             LAMBDA r : r.ip = i /\ r.timestamp = ts)

ClaimNoise(i) ==
    <<SumWhere(input_ip_traffic_df,
               LAMBDA r : /\ r.ip = i
                          /\ r.timestamp - ko_timestamp \in (-90)..(-31)), 12>>

ClaimMatchKeys ==
    {<<r.ip, r.timestamp>> : r \in
        {q \in SeqRange(input_ip_traffic_df) :
            q.timestamp - ko_timestamp \in 0..109}}

\* C1: every row returned by construct_output_df has piracy_gigabits >= 0.
C1_PiracyNonNegative ==
    attr_pc = "done" =>
        \A r \in output_ip_traffic_df :
            r.piracy_gigabits[2] > 0 /\ r.piracy_gigabits[1] >= 0

\* An endpoint whose noise baseline exceeds its in-match gigabits is output.
C1_Witness ==
    /\ attr_pc = "done"
    /\ \E r \in output_ip_traffic_df :
          /\ r.ip \in DOMAIN noise_df
          /\ ~RLe(noise_df[r.ip], Rat(r.gigabits))
          /\ REq(r.piracy_gigabits, Rat(0))

\* C2: the output has one row per (endpoint, bucket) of the input with the
\* bucket in [kickoff, kickoff + 110 min); its gigabits is the sum of the
\* input records of that key, piracy_gigabits = max(gigabits - noise, 0) with
\* the endpoint's baseline (0 without one), and gbps, piracy_gbps are these
\* divided by 300.
C2_Attribution ==
    attr_pc = "done" =>
        /\ {<<r.ip, r.timestamp>> : r \in output_ip_traffic_df} = ClaimMatchKeys
        /\ Cardinality(output_ip_traffic_df) = Cardinality(ClaimMatchKeys)
        /\ \A r \in output_ip_traffic_df :
              LET g == ClaimGigabits(r.ip, r.timestamp)
                  d == RSub(Rat(g), ClaimNoise(r.ip))
              IN /\ r.gigabits = g
                 /\ REq(r.piracy_gigabits, IF d[1] > 0 THEN d ELSE Rat(0))
                 /\ r.gbps[1] * 300 = g * r.gbps[2]
                 /\ r.piracy_gbps[1] * 300 * r.piracy_gigabits[2]
                        = r.piracy_gigabits[1] * r.piracy_gbps[2]

\* gigabits 5, noise 2, piracy 3, beside an endpoint without baseline.
C2_Witness ==
    /\ attr_pc = "done"
    /\ \E r \in output_ip_traffic_df :
          /\ r.gigabits = 5
          /\ REq(NoiseOf(noise_df, r.ip), Rat(2))
          /\ REq(r.piracy_gigabits, Rat(3))
          /\ REq(r.gbps, <<5, 300>>)
          /\ REq(r.piracy_gbps, <<3, 300>>)
    /\ \E r \in output_ip_traffic_df : r.ip \notin DOMAIN noise_df

\* C3: the baseline of an endpoint is the sum of its gigabits over the
\* buckets in [kickoff - 90 min, kickoff - 30 min) divided by 12, whatever the
\* number of samples; it is 0 for an endpoint with no sample there.
C3_NoiseBaseline ==
    attr_pc = "done" =>
        \A i \in {r.ip : r \in SeqRange(input_ip_traffic_df)} :
            /\ REq(NoiseOf(noise_df, i), ClaimNoise(i))
            /\ i \in DOMAIN noise_df <=>
                  \E r \in SeqRange(input_ip_traffic_df) :
                     r.ip = i /\ r.timestamp - ko_timestamp \in (-90)..(-31)

\* Samples [10, 0] in the window give 10/12, with samples at kickoff - 30 min
\* and before kickoff - 90 min present and left out.
C3_Witness ==
    /\ attr_pc = "done"
    /\ "A" \in DOMAIN noise_df
    /\ REq(noise_df["A"], <<10, 12>>)
    /\ \E r \in SeqRange(input_ip_traffic_df) :
          r.ip = "A" /\ r.timestamp = ko_timestamp - 30
    /\ \E r \in SeqRange(input_ip_traffic_df) :
          r.ip = "A" /\ r.timestamp = ko_timestamp - 60

(***************************************************************************)
(* Claims about model_one (specification SpecDetect)                       *)
(***************************************************************************)
\* The kick-off times of the fixtures, with what the claims say of each.
ClaimKickOffs ==
    {[ko |-> T1500, hh |-> 15, mm |-> 0, name |-> <<"i", "p", "s", "_", "2", "0", "2", "1", "0", "4", "1", "2", "_", "1", "5", "0", "0", "_", "U", "T", "C", ".", "c", "s", "v">>],
     [ko |-> T2030, hh |-> 20, mm |-> 30, name |-> <<"i", "p", "s", "_", "2", "0", "2", "1", "0", "4", "1", "2", "_", "2", "0", "3", "0", "_", "U", "T", "C", ".", "c", "s", "v">>],
     [ko |-> T1232, hh |-> 12, mm |-> 32, name |-> <<"i", "p", "s", "_", "2", "0", "2", "1", "0", "4", "1", "2", "_", "1", "2", "3", "2", "_", "U", "T", "C", ".", "c", "s", "v">>]}

ClaimOf(ko) == CHOOSE c \in ClaimKickOffs : c.ko = ko

\* The kick-off times of the fixtures of match_date, one per fixture row.
ClaimMatches ==
    SelectSeq(pl_fixtures, LAMBDA r : r.date = D1)

ClaimDistinctKickOffs == {ClaimMatches[k].ko_time : k \in 1..Len(ClaimMatches)}

\* The row of the first match of the date with kick-off time ko.
ClaimFirst(ko) ==
    CHOOSE k \in 1..Len(ClaimMatches) :
        /\ ClaimMatches[k].ko_time = ko
        /\ \A j \in 1..(k - 1) : ClaimMatches[j].ko_time # ko

ClaimExceedCount(i, g) ==
    Cardinality({k \in 1..Len(ips_d[i]) :
        /\ scanned[g][1] <= k - 1
        /\ k - 1 < scanned[g][2]
        /\ ips_d[i][k] # <<>>
        /\ 10 * ips_d[i][k][1] > ips_d[i][k][2]})

ClaimListIs(g, tiesInIdentityOrder) ==
    LET l == pirate_lists[g]
    IN /\ SeqRange(l) = {i \in DOMAIN ips_d : ClaimExceedCount(i, g) > 10}
       /\ Len(l) = Cardinality(SeqRange(l))
       /\ \A a, b \in 1..Len(l) :
             a < b =>
                /\ ClaimExceedCount(l[a], g) >= ClaimExceedCount(l[b], g)
                /\ (/\ tiesInIdentityOrder
                    /\ ClaimExceedCount(l[a], g) = ClaimExceedCount(l[b], g))
                      => l[a] < l[b]

\* C5 as stated: the candidate list of a window holds exactly the endpoints
\* with more than 10 exceeding buckets, in descending order of count, and
\* endpoints of equal count in endpoint identity order.
C5_Original == \A g \in 1..Len(pirate_lists) : ClaimListIs(g, TRUE)

\* C5 as amended: the candidate list of a window holds exactly the endpoints
\* with more than 10 exceeding buckets, in descending order of count (the
\* order among endpoints of equal count is not fixed).
C5_CandidateList == \A g \in 1..Len(pirate_lists) : ClaimListIs(g, FALSE)

\* An endpoint with 15 exceeding buckets is kept, one with exactly 10 is not.
C5_Witness ==
    /\ Len(pirate_lists) >= 1
    /\ pirate_lists[1] = <<2>>
    /\ DOMAIN ips_d = {1, 2}
    /\ ClaimExceedCount(1, 1) = 10
    /\ ClaimExceedCount(2, 1) = 15

\* The gbps values of ip over the buckets of the traffic table, 0 where ip
\* has no row in a bucket of the table.
ClaimPresent == {t \in Buckets : \E j \in IPs : ip_traffic[j][t] # <<>>}
ClaimValues(i) ==
    {IF ip_traffic[i][t] = <<>> THEN 0 ELSE SumSeq(ip_traffic[i][t]) :
        t \in ClaimPresent}
ClaimPeak(i) ==
    LET vals == ClaimValues(i) IN CHOOSE m \in vals : \A v \in vals : v <= m

\* C7: exactly the endpoints whose maximum bandwidth is above 0.02 are
\* normalised; the normalised series of each has minimum 0 and maximum 1,
\* and a constant series is 0 in every bucket.
C7_Normalised ==
    (det_pc = "loop" /\ count = 0) =>
        /\ DOMAIN ips_normalized = {i \in IPs : ClaimPeak(i) > 2}
        /\ \A i \in DOMAIN ips_normalized :
              LET col == ips_normalized[i]
                  nums == {col[k][1] : k \in 1..Len(col)}
                  dens == {col[k][2] : k \in 1..Len(col)}
              IN /\ Len(col) = Cardinality(ClaimPresent)
                 /\ \A k \in 1..Len(col) : col[k] # <<>>
                 /\ \E d \in dens : dens = {d} /\ d > 0 /\ \A n \in nums : n <= d
                 /\ \A n \in nums : 0 <= n
                 /\ IF Cardinality(ClaimValues(i)) = 1
                    THEN nums = {0}
                    ELSE 0 \in nums /\ nums \cap dens # {}

\* A constant series and a rising one are both normalised.
C7_Witness ==
    /\ det_pc = "loop"
    /\ ip_traffic[1] = Flat
    /\ ip_traffic[2] = Ramp(184)
    /\ DOMAIN ips_normalized = {1, 2}
    /\ \A k \in 1..Len(ips_normalized[1]) : ips_normalized[1][k][1] = 0

\* C8 as stated: when no endpoint survives the top-talker filter, model_one
\* does not raise and every match of the date gets an empty candidate list.
C8_EmptyMatrixNoRaise ==
    (det_pc \in {"raised", "returned"} /\ \A i \in IPs : ClaimPeak(i) <= 2) =>
        /\ det_pc # "raised"
        /\ \A g \in 1..Len(pirate_lists) : pirate_lists[g] = <<>>

ClaimNames == [k \in 1..Len(pl_games[match_date]) |->
                  ClaimOf(pl_games[match_date][k]).name]

ClaimRowsOf(ko) == {r \in BagToSet(table) : r.ko_timestamp = ko}

\* C6: running the attribution of a match again for the same ko_timestamp
\* leaves the table with the rows of one run for that ko_timestamp: once
\* the load of a match has completed, the rows of its ko_timestamp in the
\* table are the rows just built, each of them once.
C6_RerunLeavesSameRows ==
    main_pc = "cs_move_object" =>
        /\ ClaimRowsOf(ko_timestamp) = output_ip_traffic_df
        /\ \A r \in ClaimRowsOf(ko_timestamp) : CopiesIn(r, table) = 1

ClaimStoresUntouched ==
    /\ table = at_match_start.table
    /\ src_listing = at_match_start.src_listing
    /\ dst_listing = at_match_start.dst_listing

ClaimPastGetIps ==
    {"get_ip_traffic", "get_season_and_gw", "construct_output_df",
     "bq_delete_existing_rows", "bq_df_to_table", "cs_move_object"}

ClaimPastSeason ==
    {"construct_output_df", "bq_delete_existing_rows", "bq_df_to_table",
     "cs_move_object"}

\* C9: in main, get_ips goes on only with exactly one blob of the file's
\* name in the source location and get_season_and_gw only with exactly one
\* row from its query; with none or with more than one the lookup raises,
\* and then the table has no row purged or appended and no artifact has
\* moved since the match began.
C9_ExactlyOneOrRaise ==
    /\ main_pc \in ClaimPastGetIps =>
          /\ at_match_start.src_listing[input_file_name] = 1
          /\ blob_to_process = 1
    /\ main_pc \in ClaimPastSeason => query_list = 1
    /\ blob_to_process \notin {-1, 1} =>
          /\ main_pc = "raised"
          /\ raised_at = "get_ips"
    /\ query_list \notin {-1, 1} =>
          /\ main_pc = "raised"
          /\ raised_at = "get_season_and_gw"
    /\ (main_pc = "raised" /\ raised_at \in {"get_ips", "get_season_and_gw"})
          => ClaimStoresUntouched

\* A retry whose season lookup returns two rows for a match whose rows an
\* earlier attempt has loaded, its artifact still in the source location.
C9_Witness ==
    /\ main_pc = "raised"
    /\ raised_at = "get_season_and_gw"
    /\ query_list = 2
    /\ blob_to_process = 1
    /\ ClaimRowsOf(ko_timestamp) # {}
    /\ src_listing[input_file_name] = 1

(***************************************************************************)
(* Further claims about construct_output_df, checked under SpecAttr        *)
(***************************************************************************)
ClaimMeta(r) ==
    [asn |-> r.asn, as_name |-> r.as_name, analyse |-> r.analyse,
     vpn |-> r.vpn, vpn_name |-> r.vpn_name]

ClaimInputOf(i) == {r \in SeqRange(input_ip_traffic_df) : r.ip = i}

ClaimMixedAsn(i) ==
    /\ \E r \in ClaimInputOf(i) : r.asn = <<>>
    /\ \E r \in ClaimInputOf(i) : r.asn # <<>>

\* C11: the output carries one metadata row per endpoint: all output rows
\* of an endpoint have the asn, as_name, analyse, vpn and vpn_name of one
\* and the same raw row of that endpoint, and when the endpoint has raw
\* rows with and without asn that row is one with an asn.
C11_MetadataCanonical ==
    attr_pc = "done" =>
        \A i \in {o.ip : o \in output_ip_traffic_df} :
            \E kept \in ClaimInputOf(i) :
                /\ \A o \in output_ip_traffic_df :
                      o.ip = i => ClaimMeta(o) = ClaimMeta(kept)
                /\ ClaimMixedAsn(i) => kept.asn # <<>>

\* An endpoint with raw rows with and without asn has output rows.
C11_Witness ==
    /\ attr_pc = "done"
    /\ \E o \in output_ip_traffic_df :
          /\ ClaimMixedAsn(o.ip)
          /\ o.asn # <<>>
          /\ o.analyse

(***************************************************************************)
(* Further claims about main, checked under Spec                           *)
(***************************************************************************)
\* C12: the purge step of main aborts the match only when the purge query
\* file is missing.  With the file present main goes on to the load,
\* whether the purge ran, found the table missing or failed otherwise, and
\* a purge that finds no table or no row of the ko_timestamp leaves the
\* table as it is.
C12_PurgeMissNotAnError ==
    [][main_pc = "bq_delete_existing_rows" =>
          IF delete_query_file
          THEN /\ main_pc' = "bq_df_to_table"
               /\ raised_at' = raised_at
               /\ (~table_exists \/ ClaimRowsOf(ko_timestamp) = {})
                     => table' = table
          ELSE /\ main_pc' = "raised"
               /\ raised_at' = "bq_delete_existing_rows"
               /\ table' = table]_vars

\* A first attempt on an empty or missing table that loaded the rows of
\* its one match and moved the artifact.
C12_Witness ==
    /\ main_pc = "done"
    /\ tries = 0
    /\ Len(file_name_w_ko_list) = 1
    /\ at_match_start.table = EmptyBag
    /\ ClaimRowsOf(ko_timestamp) # {}
    /\ input_file_name \in dst_listing
    /\ src_listing[input_file_name] = 0

ClaimInputAbsence ==
    /\ main_pc = "raised"
    /\ \/ raised_at = "get_ips" /\ blob_to_process = 0
       \/ raised_at = "get_season_and_gw" /\ query_list = 0

\* C13: once a match has failed on an absent input (no blob of the
\* expected name in the source location, no season and game week for the
\* kick-off), the failure stands: no step of main runs again.
C13_AbsenceNotRetried ==
    [][ClaimInputAbsence => main_pc' = "raised"]_vars

(***************************************************************************)
(* Claims about model_one run twice, checked under SpecRerun               *)
(***************************************************************************)
ClaimSecondRunOver ==
    /\ first_run # <<>>
    /\ det_pc \in {"returned", "raised"}

ClaimPosition(t) == Cardinality({u \in ClaimPresent : u < t})

ClaimScannedBuckets(g) ==
    {t \in ClaimPresent :
        /\ scanned[g][1] <= ClaimPosition(t)
        /\ ClaimPosition(t) < scanned[g][2]}

\* C15: the rows scanned for a match are the buckets whose index in the
\* day (minutes since midnight / 5) lies in [start_index, end_index).
C15_ScannedByDayIndex ==
    \A g \in 1..Len(scanned) :
        ClaimScannedBuckets(g) =
            {t \in ClaimPresent : scanned[g][1] <= t /\ t < scanned[g][2]}

\* Row k (from 1) of a series of n rows is an edge row when the 8-row
\* average behind smoothed(k) or smoothed(k - 4) reaches outside the series.
ClaimEdge(k, n) == k < 8 \/ k > n - 4

ClaimWindow(g, n) ==
    {k \in 1..n : scanned[g][1] <= k - 1 /\ k - 1 < scanned[g][2]}

\* C16: the differenced value of an edge row is undefined, not 0 and not a
\* difference taken against 0; an endpoint is a candidate of a window only
\* on the strength of more than 10 rows of the window whose value is
\* defined and above 0.1; and model_one raises only for want of a top
\* talker or of a fixture on the match date, whatever rows its windows hold.
C16_UndefinedIsAbsent ==
    /\ \A i \in DOMAIN ips_d : \A k \in 1..Len(ips_d[i]) :
          ClaimEdge(k, Len(ips_d[i])) => ips_d[i][k] = <<>>
    /\ \A g \in 1..Len(pirate_lists) : \A i \in SeqRange(pirate_lists[g]) :
          Cardinality({k \in ClaimWindow(g, Len(ips_d[i])) :
              /\ ~ClaimEdge(k, Len(ips_d[i]))
              /\ 10 * ips_d[i][k][1] > ips_d[i][k][2]}) > 10
    /\ det_pc = "raised" =>
          \/ \A i \in IPs : ClaimPeak(i) <= 2
          \/ match_date \notin DOMAIN pl_games

\* A finished run with a window that holds rows of undefined value.
C16_Witness ==
    /\ det_pc = "returned"
    /\ \E g \in 1..Len(scanned) : \E i \in DOMAIN ips_d :
          \E k \in ClaimWindow(g, Len(ips_d[i])) : ips_d[i][k] = <<>>

\* The sum of the numerators of rows lo..hi of a normalised series.
ClaimSum(col, lo, hi) ==
    LET f[k \in (lo - 1)..hi] == IF k < lo THEN 0 ELSE f[k - 1] + col[k][1]
    IN f[hi]

\* smoothed(t) as claimed, for a row t with rows t - 3 .. t + 4 in the series
ClaimSmoothed(col, t) == <<ClaimSum(col, t - 3, t + 4), 8 * col[t][2]>>

ClaimSmoothedDefined(t, n) == t - 3 >= 1 /\ t + 4 <= n

\* C17: for every endpoint and row t of its series, diff(t) is
\* smoothed(t) - smoothed(t - 4) where smoothed(t) is the mean of the 8
\* normalised values of rows t - 3 .. t + 4, and diff(t) is undefined when
\* one of these rows, for t or for t - 4, is outside the series.
C17_SmoothedAndDiff ==
    (det_pc = "loop" /\ count = 0) =>
        \A i \in DOMAIN ips_d :
            LET col == ips_normalized[i]
                n == Len(col)
            IN /\ Len(ips_d[i]) = n
               /\ \A t \in 1..n :
                     IF /\ ClaimSmoothedDefined(t, n)
                        /\ t - 4 >= 1
                        /\ ClaimSmoothedDefined(t - 4, n)
                     THEN /\ ips_d[i][t] # <<>>
                          /\ REq(ips_d[i][t],
                                 RSub(ClaimSmoothed(col, t),
                                      ClaimSmoothed(col, t - 4)))
                     ELSE ips_d[i][t] = <<>>

\* A series with a rise of more than 0.1 over 4 rows.
C17_Witness ==
    /\ det_pc = "loop"
    /\ count = 0
    /\ \E i \in DOMAIN ips_d : \E t \in 1..Len(ips_d[i]) :
          /\ ips_d[i][t] # <<>>
          /\ 10 * ips_d[i][t][1] > ips_d[i][t][2]

(***************************************************************************)
(* The order of load and move in main, checked under Spec                  *)
(***************************************************************************)
ClaimKoOf(f) ==
    LET j == CHOOSE k \in DOMAIN file_name_w_ko_list :
                 file_name_w_ko_list[k].file_name = f
    IN file_name_w_ko_list[j].ko_timestamp

ClaimBeforeMove ==
    {"get_ips", "get_ip_traffic", "get_season_and_gw", "construct_output_df",
     "bq_delete_existing_rows", "bq_df_to_table"}

\* The matches this run of main has completed.
ClaimCompleted ==
    IF main_pc = "done" THEN 1..Len(file_name_w_ko_list)
    ELSE 1..(file_idx - 1)

\* An artifact whose match has not come to its move in this run, or failed
\* before it, is where it was when the match began.
ClaimNotMovedEarly ==
    (\/ main_pc \in ClaimBeforeMove \cup {"cs_move_object"}
     \/ main_pc = "raised" /\ raised_at \in ClaimBeforeMove)
        => /\ src_listing = at_match_start.src_listing
           /\ dst_listing = at_match_start.dst_listing

\* Matches are taken in list order, the next one after the move of the
\* one before.
ClaimInOrder ==
    \A j \in ClaimCompleted :
        /\ file_name_w_ko_list[j].file_name \in dst_listing
        /\ src_listing[file_name_w_ko_list[j].file_name] = 0

\* C18 as stated: every artifact in the processed location has the rows of
\* its match in the table, in every execution; an artifact whose match
\* failed before or during the load is still in the source location;
\* matches run in list order, one after the other.
C18_Original ==
    /\ \A f \in dst_listing : ClaimRowsOf(ClaimKoOf(f)) # {}
    /\ ClaimNotMovedEarly
    /\ ClaimInOrder

\* C18 as amended: every artifact that this run of main has put into the
\* processed location had the rows of its match loaded before: the matches
\* completed in this run have their rows in the table, and so has the
\* current match once its artifact has reached the processed location; an
\* artifact whose match failed before or during the load is where it was
\* when the match began; matches run in list order, one after the other.
C18_MoveAfterLoad ==
    /\ \A j \in ClaimCompleted :
          ClaimRowsOf(file_name_w_ko_list[j].ko_timestamp) # {}
    /\ input_file_name \in dst_listing \ at_match_start.dst_listing =>
          /\ output_ip_traffic_df # {}
          /\ output_ip_traffic_df \subseteq ClaimRowsOf(ko_timestamp)
    /\ ClaimNotMovedEarly
    /\ ClaimInOrder

\* Two matches loaded and moved in list order.
C18_Witness ==
    /\ main_pc = "done"
    /\ Len(file_name_w_ko_list) = 2
    /\ dst_listing = FileNames
    /\ ClaimRowsOf(900) # {}
    /\ ClaimRowsOf(1230) # {}

====
